---- MODULE Spec2Model ----
(***************************************************************************)
(* Model of toggl/utils/bootstrap.py: ConfigBootstrap, the first-run       *)
(* configuration wizard of the Toggl CLI.                                  *)
(*                                                                         *)
(* start() is a sequential process that blocks at every prompt.  One       *)
(* action of the model is one answer (or cancellation) of the user at a    *)
(* prompt together with all the code that runs until the next prompt is    *)
(* waiting or start() has ended; the workspace question drawing its list   *)
(* of choices, which calls back into _get_workspaces, is an action of its  *)
(* own.  The remote account changes between the steps.                     *)
(***************************************************************************)
EXTENDS Integers, Sequences, FiniteSets, TLC

VARIABLES
    pc,           \* where start() is waiting, or how it ended
    workspaces,   \* self.workspaces: <<>> is None, <<list>> is a list
    type_auth,    \* local of _get_api_token
    credentials,  \* local of _get_api_token: the last submitted pair, <<>> before
    api_token,    \* local of start()
    answers,      \* the dict inquirer.prompt fills for the preferences batch
    config,       \* the dict start() returns (meaningful when pc = "done")
    remote,       \* the remote account service: token -> sequence of workspaces
    asked,        \* observation: how often the code issued each prompt
    calls,        \* observation: how often each remote function was called
    echoed,       \* observation: how often each notice was printed
    rejected,     \* observation: answers refused so far, per retried prompt
    accepted,     \* observation: tokens are_credentials_valid returned True for
    cancelled,    \* observation: the prompt the user cancelled, "" if none
    wsCalls,      \* observation: how often _get_workspaces was called
    wsTokens,     \* observation: the token arguments of those calls
    listed,       \* observation: <<l>> once the remote listing returned l, <<>> before
    changes,      \* observation: how often the remote account changed
    lastReturn,   \* observation: how the last _get_workspaces call ended, and its value
    exitStatus,   \* <<s>> once exit() ended the process with status s, <<>> before
    visited,      \* observation: the states of the wizard entered so far, in order
    raisedBy,     \* observation: the remote call whose exception left start(), "" if none
    sentTokens    \* observation: the tokens sent with the listing and the by-name lookup

vars == << pc, workspaces, type_auth, credentials, api_token, answers,
           config, remote, asked, calls, echoed, rejected, accepted, cancelled,
           wsCalls, wsTokens, listed, changes, lastReturn, exitStatus, visited,
           raisedBy, sentTokens >>

-----------------------------------------------------------------------------
(* Bounds of the model *)

MaxRetries == 3
MaxRenders == 2
MaxRemoteChanges == 1
MaxDirectCalls == 4

-----------------------------------------------------------------------------
(* Class constants and literals of the source *)

KEEP_TOGGLS_DEFAULT_WORKSPACE == "-- Keep Toggl's default --"
SYSTEM_TIMEZONE == "-- Use system's timezone --"
API_TOKEN_OPTION == "API token"
CREDENTIALS_OPTION == "Credentials"

\* the argument of exit() in _exit
ExitCode == -1

\* Python's None, where the other values are strings
None == "<None>"

\* default='~/.toggl_log' of the Path question, as a sequence of characters
\* ("t" stands for the file name .toggl_log)
DefaultLogPath == << "~", "/", "t" >>

-----------------------------------------------------------------------------
(* The environment: what the user may type and what the remote account     *)
(* service holds.                                                          *)

ValidTokens == { "abc123", "tok2" }
TokenInputs == { "", "bad", "abc123", "tok2" }

Usernames == { "alice", "bob" }
Passwords == { "pw", "oops" }

\* pendulum.timezones, cut down to two names
Timezones == { "Europe/Prague", "UTC" }
TimezoneInputs == Timezones \cup { SYSTEM_TIMEZONE, "Mars/Olympus", "local" }

\* paths the user may type: ~/t, ~, ~u/t (home of user u), ~x/t (no such user),
\* /v/t (absolute), t (relative)
PathInputs == { << "~", "/", "t" >>, << "~" >>, << "~", "u", "/", "t" >>,
                << "~", "x", "/", "t" >>, << "/", "v", "/", "t" >>, << "t" >> }

\* os.environ['HOME'] and the password database of the machine
Home == << "/", "h", "/" >>
PwDirs == [ name \in { << "u" >> } |-> << "/", "o" >> ]

\* the states the remote account may be in: abc123's account and tok2's
RemoteStates ==
    { [ abc123 |-> << [id |-> 7, name |-> "Acme"], [id |-> 12, name |-> "Home"] >>,
        tok2   |-> << [id |-> 105, name |-> "Lab"] >> ],
      \* Acme renamed, Home deleted
      [ abc123 |-> << [id |-> 7, name |-> "Corp"] >>,
        tok2   |-> << [id |-> 105, name |-> "Lab"] >> ],
      \* a second workspace named Acme
      [ abc123 |-> << [id |-> 7, name |-> "Acme"], [id |-> 12, name |-> "Home"],
                      [id |-> 40, name |-> "Acme"] >>,
        tok2   |-> << >> ] }

-----------------------------------------------------------------------------
(* Library functions the source calls *)

Digit(d) ==
    CASE d = 0 -> "0" [] d = 1 -> "1" [] d = 2 -> "2" [] d = 3 -> "3"
      [] d = 4 -> "4" [] d = 5 -> "5" [] d = 6 -> "6" [] d = 7 -> "7"
      [] d = 8 -> "8" [] d = 9 -> "9"

\* str(n) of a non-negative integer: its decimal digits
RECURSIVE str(_)
str(n) == IF n < 10 THEN Digit(n) ELSE str(n \div 10) \o Digit(n % 10)

\* path.find('/', 1), 1-based: the first "/" at position from or later,
\* Len(path) + 1 when there is none
RECURSIVE FindSep(_, _)
FindSep(path, from) ==
    IF from > Len(path) THEN Len(path) + 1
    ELSE IF path[from] = "/" THEN from
    ELSE FindSep(path, from + 1)

\* userhome.rstrip('/')
RECURSIVE RStrip(_)
RStrip(p) ==
    IF p # << >> /\ p[Len(p)] = "/" THEN RStrip(SubSeq(p, 1, Len(p) - 1)) ELSE p

\* os.path.expanduser (posixpath), HOME being set
expanduser(path) ==
    IF path = << >> \/ path[1] # "~" THEN path
    ELSE LET i == FindSep(path, 2)
             name == SubSeq(path, 2, i - 1)
             rest == SubSeq(path, i, Len(path))
         IN  IF i # 2 /\ name \notin DOMAIN PwDirs THEN path
             ELSE LET userhome == RStrip(IF i = 2 THEN Home ELSE PwDirs[name])
                  IN  IF userhome \o rest = << >> THEN << "/" >>
                      ELSE userhome \o rest

-----------------------------------------------------------------------------
(* The remote account service, as the wizard sees it.  net = FALSE is a    *)
(* call that fails for a reason other than the credentials (the network,   *)
(* the service).                                                           *)

\* others.are_credentials_valid(api_token=...)
are_credentials_valid(token) == token \in ValidTokens

\* the accounts: alice/pw owns abc123, bob/pw owns tok2
AccountToken(username, password) ==
    IF password # "pw" THEN None
    ELSE IF username = "alice" THEN "abc123" ELSE "tok2"

\* others.convert_credentials_to_api_token(username, password)
\* status "auth" is TogglAuthenticationException, "error" any other exception
convert_credentials_to_api_token(username, password, net) ==
    IF ~net THEN [status |-> "error", token |-> None]
    ELSE IF AccountToken(username, password) = None
         THEN [status |-> "auth", token |-> None]
         ELSE [status |-> "ok", token |-> AccountToken(username, password)]

\* Workspace.objects.all(config=config)
WorkspaceAll(rem, token, net) ==
    IF net /\ token \in ValidTokens
    THEN [ok |-> TRUE, value |-> rem[token]]
    ELSE [ok |-> FALSE, value |-> << >>]

\* Workspace.objects.get(name=..., config=config).id : raises unless exactly
\* one workspace of the account has the name
WorkspaceGet(rem, token, name, net) ==
    LET found == IF token \in ValidTokens
                 THEN SelectSeq(rem[token], LAMBDA w : w.name = name)
                 ELSE << >>
    IN  IF net /\ Len(found) = 1
        THEN [ok |-> TRUE, id |-> found[1].id]
        ELSE [ok |-> FALSE, id |-> 0]

-----------------------------------------------------------------------------
(* ConfigBootstrap._get_workspaces *)

\* the for loop of lines 53-54: append each workspace's name
AppendNames(list, all) == list \o [ i \in 1 .. Len(all) |-> all[i].name ]

\* a variant with no cache check: the listing is done on every call
_get_workspaces_nocache(self_workspaces, listing) ==
    IF listing.ok
    THEN [ workspaces |-> << AppendNames(<< KEEP_TOGGLS_DEFAULT_WORKSPACE >>, listing.value) >>,
           listed |-> TRUE, raised |-> FALSE,
           value |-> AppendNames(<< KEEP_TOGGLS_DEFAULT_WORKSPACE >>, listing.value) ]
    ELSE [ workspaces |-> << << KEEP_TOGGLS_DEFAULT_WORKSPACE >> >>,
           listed |-> TRUE, raised |-> TRUE, value |-> << >> ]

\* self_workspaces is self.workspaces before the call, listing what
\* Workspace.objects.all answers if it is called.  The result: self.workspaces
\* after the call, whether the remote listing was done, whether the call
\* raised, and the value returned.
_get_workspaces(self_workspaces, listing) ==
    IF self_workspaces = << >>
    THEN IF listing.ok
         THEN [ workspaces |-> << AppendNames(<< KEEP_TOGGLS_DEFAULT_WORKSPACE >>, listing.value) >>,
                listed |-> TRUE, raised |-> FALSE,
                value |-> AppendNames(<< KEEP_TOGGLS_DEFAULT_WORKSPACE >>, listing.value) ]
         \* line 52 has assigned the list when line 53 raises
         ELSE [ workspaces |-> << << KEEP_TOGGLS_DEFAULT_WORKSPACE >> >>,
                listed |-> TRUE, raised |-> TRUE, value |-> << >> ]
    ELSE [ workspaces |-> self_workspaces, listed |-> FALSE, raised |-> FALSE,
           value |-> self_workspaces[1] ]

-----------------------------------------------------------------------------
(* ConfigBootstrap._map_answers *)

\* a variant that starts from all the raw answers
BaseOutputAllAnswers(ans) == ans

\* lines 62-66
BaseOutput(ans) ==
    [ api_token |-> ans["api_token"], file_logging |-> ans["file_logging"] ]

\* a variant that copies the timezone answer as it is
TimezoneEntryRaw(ans) == "timezone" :> ans["timezone"]

\* lines 68-69
TimezoneEntry(ans) ==
    IF ans["timezone"] = SYSTEM_TIMEZONE THEN "timezone" :> "local" ELSE << >>

\* a variant that writes the path whenever the answers hold one
FileLoggingPathEntryAlways(ans) ==
    IF "file_logging_path" \in DOMAIN ans
    THEN "file_logging_path" :> expanduser(ans["file_logging_path"])
    ELSE << >>

\* lines 71-72
FileLoggingPathEntry(ans) ==
    IF ans["file_logging"]
    THEN "file_logging_path" :> expanduser(ans["file_logging_path"])
    ELSE << >>

\* a variant that takes the identifier of the account's first workspace
DefaultWidEntryFirst(ans, rem, net) ==
    IF ans["default workspace"] # KEEP_TOGGLS_DEFAULT_WORKSPACE
    THEN LET got == WorkspaceGet(rem, ans["api_token"], ans["default workspace"], net)
         IN  [ lookup |-> TRUE, token |-> ans["api_token"], raised |-> ~got.ok,
               entry |-> IF got.ok THEN "default_wid" :> str(rem[ans["api_token"]][1].id)
                         ELSE << >> ]
    ELSE [ lookup |-> FALSE, token |-> None, raised |-> FALSE, entry |-> << >> ]

\* a variant that falls back to the remote default when the lookup fails
DefaultWidEntrySilent(ans, rem, net) ==
    IF ans["default workspace"] # KEEP_TOGGLS_DEFAULT_WORKSPACE
    THEN LET got == WorkspaceGet(rem, ans["api_token"], ans["default workspace"], net)
         IN  [ lookup |-> TRUE, token |-> ans["api_token"], raised |-> FALSE,
               entry |-> IF got.ok THEN "default_wid" :> str(got.id) ELSE << >> ]
    ELSE [ lookup |-> FALSE, token |-> None, raised |-> FALSE, entry |-> << >> ]

\* lines 74-77: whether the by-name lookup was done and with which token,
\* whether it raised, and the entry added to the output
DefaultWidEntry(ans, rem, net) ==
    IF ans["default workspace"] # KEEP_TOGGLS_DEFAULT_WORKSPACE
    THEN LET got == WorkspaceGet(rem, ans["api_token"], ans["default workspace"], net)
         IN  [ lookup |-> TRUE, token |-> ans["api_token"], raised |-> ~got.ok,
               entry |-> IF got.ok THEN "default_wid" :> str(got.id) ELSE << >> ]
    ELSE [ lookup |-> FALSE, token |-> None, raised |-> FALSE, entry |-> << >> ]

\* _map_answers(**answers): whether the lookup was done, whether it raised,
\* and the dict returned
_map_answers(ans, rem, net) ==
    LET wid == DefaultWidEntry(ans, rem, net)
    IN  [ lookup |-> wid.lookup, token |-> wid.token, raised |-> wid.raised,
          output |-> BaseOutput(ans) @@ TimezoneEntry(ans)
                       @@ FileLoggingPathEntry(ans) @@ wid.entry ]

-----------------------------------------------------------------------------
(* The state after ConfigBootstrap() and before start() *)

Bump(f, k) == [f EXCEPT ![k] = @ + 1]

Init ==
    /\ pc = "start"
    /\ workspaces = << >>
    /\ type_auth = None
    /\ credentials = << >>
    /\ api_token = None
    /\ answers = << >>
    /\ config = << >>
    /\ remote \in RemoteStates
    /\ asked = [auth |-> 0, token |-> 0, credentials |-> 0, preferences |-> 0]
    /\ calls = [valid |-> 0, exchange |-> 0, list |-> 0, lookup |-> 0]
    /\ echoed = [banner |-> 0, retry |-> 0, failure |-> 0, success |-> 0]
    /\ rejected = [token |-> 0, credentials |-> 0, timezone |-> 0]
    /\ accepted = { }
    /\ cancelled = ""
    /\ wsCalls = 0
    /\ wsTokens = { }
    /\ listed = << >>
    /\ changes = 0
    /\ lastReturn = [raised |-> FALSE, value |-> << >>]
    /\ exitStatus = << >>
    /\ visited = << "START" >>
    /\ raisedBy = ""
    /\ sentTokens = [list |-> { }, lookup |-> { }]

wsVars == << workspaces, wsCalls, wsTokens, listed, lastReturn >>
authVars == << type_auth, credentials, accepted >>
runVars == << exitStatus, visited, raisedBy, sentTokens >>

-----------------------------------------------------------------------------
(* ConfigBootstrap._exit: the failure notice and exit(-1) *)

\* the status the process ends with when SystemExit(code) reaches the top:
\* the low eight bits of code
ExitStatusOf(code) == code % 256

\* a variant whose exit does not end the process: start() goes on to the
\* preferences batch
_exitReturns ==
    /\ echoed' = Bump(echoed, "failure")
    /\ exitStatus' = exitStatus
    /\ visited' = Append(visited, "COLLECTING_PREFERENCES")
    /\ pc' = "ws_prompt"

_exit ==
    /\ echoed' = Bump(echoed, "failure")
    /\ exitStatus' = << ExitStatusOf(ExitCode) >>
    /\ visited' = Append(visited, "ABORTED")
    /\ pc' = "aborted"

(* start(), lines 147-166: _get_api_token has returned token, which is not *)
(* None; the preferences batch is handed to inquirer.prompt, which begins  *)
(* with the workspace question.                                            *)
CollectPreferences(token) ==
    /\ api_token' = token
    /\ answers' = << >>
    /\ visited' = Append(visited, "COLLECTING_PREFERENCES")
    /\ pc' = "ws_prompt"

-----------------------------------------------------------------------------
(* start(), lines 130-147, and _get_api_token up to its first prompt *)

(* a variant that fetches the workspaces at startup, before any token *)
StartEager ==
    /\ pc = "start"
    /\ echoed' = Bump(echoed, "banner")
    /\ asked' = Bump(asked, "auth")
    /\ pc' = "auth_choice"
    /\ visited' = Append(visited, "AUTHENTICATING")
    /\ LET got == _get_workspaces(workspaces, WorkspaceAll(remote, api_token, TRUE))
       IN  /\ workspaces' = got.workspaces
           /\ wsCalls' = wsCalls + 1
           /\ wsTokens' = wsTokens \cup { api_token }
           /\ calls' = Bump(calls, "list")
           /\ lastReturn' = [raised |-> got.raised, value |-> got.value]
           /\ sentTokens' = [sentTokens EXCEPT !["list"] = @ \cup { api_token }]
    /\ UNCHANGED << api_token, answers, config, remote, rejected, cancelled, changes,
                    listed, authVars, exitStatus, raisedBy >>

Start ==
    /\ pc = "start"
    /\ echoed' = Bump(echoed, "banner")
    /\ asked' = Bump(asked, "auth")
    /\ pc' = "auth_choice"
    /\ visited' = Append(visited, "AUTHENTICATING")
    /\ UNCHANGED << api_token, answers, config, remote, calls, rejected,
                    cancelled, changes, wsVars, authVars, exitStatus, raisedBy,
                    sentTokens >>

(* a variant of AuthChoice without the check of line 93: None is not the   *)
(* API token option, and the code goes on to the credentials               *)
AuthChoiceNoNoneCheck(answer) ==
    /\ pc = "auth_choice"
    /\ type_auth' = answer
    /\ cancelled' = IF answer = None THEN "auth" ELSE cancelled
    /\ IF answer = API_TOKEN_OPTION
       THEN /\ asked' = Bump(asked, "token")
            /\ pc' = "token_prompt"
       ELSE /\ asked' = Bump(asked, "credentials")
            /\ pc' = "cred_prompt"
    /\ UNCHANGED << api_token, answers, config, remote, calls, rejected, echoed,
                    changes, wsVars, credentials, accepted, runVars >>

(* _get_api_token, lines 90-106: the answer to the auth-method question;   *)
(* None is the user's cancellation                                         *)
AuthChoice(answer) ==
    /\ pc = "auth_choice"
    /\ type_auth' = answer
    /\ cancelled' = IF answer = None THEN "auth" ELSE cancelled
    /\ IF answer = None
       THEN /\ _exit
            /\ asked' = asked
       ELSE IF answer = API_TOKEN_OPTION
       THEN /\ asked' = Bump(asked, "token")
            /\ pc' = "token_prompt"
            /\ UNCHANGED << echoed, exitStatus, visited >>
       ELSE /\ asked' = Bump(asked, "credentials")
            /\ pc' = "cred_prompt"
            /\ UNCHANGED << echoed, exitStatus, visited >>
    /\ UNCHANGED << api_token, answers, config, remote, calls, rejected,
                    changes, wsVars, credentials, accepted, raisedBy, sentTokens >>

-----------------------------------------------------------------------------
(* _get_api_token, lines 96-98: the API token prompt *)

(* a variant whose prompt takes the answer without validating it *)
TokenInputNoValidate(current) ==
    /\ pc = "token_prompt"
    /\ CollectPreferences(current)
    /\ asked' = Bump(asked, "preferences")
    /\ UNCHANGED << config, remote, calls, rejected, echoed, cancelled, changes,
                    wsVars, authVars, exitStatus, raisedBy, sentTokens >>

(* a variant without the return of line 97: the accepted token is dropped  *)
(* and the code goes on to the credentials                                 *)
TokenInputFallThrough(current) ==
    /\ pc = "token_prompt"
    /\ calls' = Bump(calls, "valid")
    /\ IF are_credentials_valid(current)
       THEN /\ accepted' = accepted \cup { current }
            /\ asked' = Bump(asked, "credentials")
            /\ pc' = "cred_prompt"
            /\ rejected' = rejected
       ELSE /\ rejected["token"] < MaxRetries
            /\ rejected' = Bump(rejected, "token")
            /\ UNCHANGED << accepted, asked, pc >>
    /\ UNCHANGED << api_token, answers, config, remote, echoed, cancelled, changes,
                    wsVars, type_auth, credentials, runVars >>

(* the user types current: the prompt takes it when the validate callable  *)
(* returns True and asks again when not                                    *)
TokenInput(current) ==
    /\ pc = "token_prompt"
    /\ calls' = Bump(calls, "valid")
    /\ IF are_credentials_valid(current)
       THEN /\ accepted' = accepted \cup { current }
            /\ CollectPreferences(current)
            /\ asked' = Bump(asked, "preferences")
            /\ rejected' = rejected
       ELSE /\ rejected["token"] < MaxRetries
            /\ rejected' = Bump(rejected, "token")
            /\ UNCHANGED << accepted, api_token, answers, asked, pc, visited >>
    /\ UNCHANGED << config, remote, echoed, cancelled, changes, wsVars,
                    type_auth, credentials, exitStatus, raisedBy, sentTokens >>

(* the user cancels the API token prompt: it returns None, start() exits *)
TokenCancel ==
    /\ pc = "token_prompt"
    /\ cancelled' = "token"
    /\ _exit
    /\ UNCHANGED << api_token, answers, config, remote, asked, calls, rejected,
                    changes, wsVars, authVars, raisedBy, sentTokens >>

-----------------------------------------------------------------------------
(* _get_api_token, lines 100-116: the credentials loop *)

(* a variant that takes a cancelled prompt for one more failed attempt *)
CredCancelRetry ==
    /\ pc = "cred_prompt"
    /\ cancelled' = "credentials"
    /\ echoed' = Bump(echoed, "retry")
    /\ asked' = Bump(asked, "credentials")
    /\ UNCHANGED << pc, api_token, answers, config, remote, calls, rejected,
                    changes, wsVars, authVars, runVars >>

(* the user cancels the username/password prompt *)
CredCancel ==
    /\ pc = "cred_prompt"
    /\ cancelled' = "credentials"
    /\ _exit
    /\ UNCHANGED << api_token, answers, config, remote, asked, calls, rejected,
                    changes, wsVars, authVars, raisedBy, sentTokens >>

(* a variant that prints the retry notice after every submission *)
CredInputAlwaysEcho(username, password, net) ==
    /\ pc = "cred_prompt"
    /\ credentials' = [username |-> username, password |-> password]
    /\ calls' = Bump(calls, "exchange")
    /\ echoed' = Bump(echoed, "retry")
    /\ LET got == convert_credentials_to_api_token(username, password, net)
       IN  CASE got.status = "ok" ->
                  /\ CollectPreferences(got.token)
                  /\ asked' = Bump(asked, "preferences")
                  /\ UNCHANGED << rejected, raisedBy >>
             [] got.status = "auth" ->
                  /\ rejected["credentials"] < MaxRetries
                  /\ rejected' = Bump(rejected, "credentials")
                  /\ asked' = Bump(asked, "credentials")
                  /\ UNCHANGED << pc, api_token, answers, visited, raisedBy >>
             [] OTHER ->
                  /\ pc' = "failed"
                  /\ raisedBy' = "exchange"
                  /\ UNCHANGED << api_token, answers, asked, rejected, visited >>
    /\ UNCHANGED << config, remote, cancelled, changes, wsVars, type_auth, accepted,
                    exitStatus, sentTokens >>

(* a variant whose except clause catches every exception *)
CredInputCatchAll(username, password, net) ==
    /\ pc = "cred_prompt"
    /\ credentials' = [username |-> username, password |-> password]
    /\ calls' = Bump(calls, "exchange")
    /\ LET got == convert_credentials_to_api_token(username, password, net)
       IN  CASE got.status = "ok" ->
                  /\ CollectPreferences(got.token)
                  /\ asked' = Bump(asked, "preferences")
                  /\ UNCHANGED << echoed, rejected, raisedBy >>
             [] got.status = "auth" ->
                  /\ rejected["credentials"] < MaxRetries
                  /\ rejected' = Bump(rejected, "credentials")
                  /\ echoed' = Bump(echoed, "retry")
                  /\ asked' = Bump(asked, "credentials")
                  /\ UNCHANGED << pc, api_token, answers, visited, raisedBy >>
             [] OTHER ->
                  /\ calls["exchange"] <= MaxRetries
                  /\ raisedBy' = "exchange"
                  /\ echoed' = Bump(echoed, "retry")
                  /\ asked' = Bump(asked, "credentials")
                  /\ UNCHANGED << pc, api_token, answers, rejected, visited >>
    /\ UNCHANGED << config, remote, cancelled, changes, wsVars, type_auth, accepted,
                    exitStatus, sentTokens >>

(* a variant with a retry limit: it gives up at the second rejected submission *)
CredInputRetryLimit(username, password, net) ==
    /\ pc = "cred_prompt"
    /\ credentials' = [username |-> username, password |-> password]
    /\ calls' = Bump(calls, "exchange")
    /\ LET got == convert_credentials_to_api_token(username, password, net)
       IN  CASE got.status = "ok" ->
                  /\ CollectPreferences(got.token)
                  /\ asked' = Bump(asked, "preferences")
                  /\ UNCHANGED << echoed, rejected, raisedBy, exitStatus >>
             [] got.status = "auth" /\ rejected["credentials"] < 1 ->
                  /\ rejected' = Bump(rejected, "credentials")
                  /\ echoed' = Bump(echoed, "retry")
                  /\ asked' = Bump(asked, "credentials")
                  /\ UNCHANGED << pc, api_token, answers, visited, raisedBy, exitStatus >>
             [] got.status = "auth" /\ rejected["credentials"] >= 1 ->
                  /\ rejected' = Bump(rejected, "credentials")
                  /\ _exit
                  /\ UNCHANGED << api_token, answers, asked, raisedBy >>
             [] OTHER ->
                  /\ pc' = "failed"
                  /\ raisedBy' = "exchange"
                  /\ UNCHANGED << api_token, answers, asked, echoed, rejected, visited,
                                  exitStatus >>
    /\ UNCHANGED << config, remote, cancelled, changes, wsVars, type_auth, accepted,
                    sentTokens >>

(* the user submits a username and a password *)
CredInput(username, password, net) ==
    /\ pc = "cred_prompt"
    /\ credentials' = [username |-> username, password |-> password]
    /\ calls' = Bump(calls, "exchange")
    /\ LET got == convert_credentials_to_api_token(username, password, net)
       IN  CASE got.status = "ok" ->
                  /\ CollectPreferences(got.token)
                  /\ asked' = Bump(asked, "preferences")
                  /\ UNCHANGED << echoed, rejected, raisedBy >>
             [] got.status = "auth" ->
                  \* line 116, and the loop asks again
                  /\ rejected["credentials"] < MaxRetries
                  /\ rejected' = Bump(rejected, "credentials")
                  /\ echoed' = Bump(echoed, "retry")
                  /\ asked' = Bump(asked, "credentials")
                  /\ UNCHANGED << pc, api_token, answers, visited, raisedBy >>
             [] OTHER ->
                  \* any other exception leaves _get_api_token and start()
                  /\ pc' = "failed"
                  /\ raisedBy' = "exchange"
                  /\ UNCHANGED << api_token, answers, asked, echoed, rejected, visited >>
    /\ UNCHANGED << config, remote, cancelled, changes, wsVars, type_auth, accepted,
                    exitStatus, sentTokens >>

-----------------------------------------------------------------------------
(* A call of _get_workspaces(token) on the instance, the remote listing    *)
(* answering according to net                                              *)

CallGetWorkspaces(token, net) ==
    LET got == _get_workspaces(workspaces, WorkspaceAll(remote, token, net))
    IN  /\ workspaces' = got.workspaces
        /\ wsCalls' = wsCalls + 1
        /\ wsTokens' = wsTokens \cup { token }
        /\ calls' = IF got.listed THEN Bump(calls, "list") ELSE calls
        /\ listed' = IF got.listed /\ ~got.raised
                     THEN << WorkspaceAll(remote, token, net).value >> ELSE listed
        /\ lastReturn' = [raised |-> got.raised, value |-> got.value]
        /\ sentTokens' = IF got.listed
                         THEN [sentTokens EXCEPT !["list"] = @ \cup { token }]
                         ELSE sentTokens

-----------------------------------------------------------------------------
(* start(), lines 152-173: the preferences batch and the normalisation *)

(* The workspace question asks its choices callable (line 155) each time   *)
(* it draws its list; an exception of the callable leaves inquirer.prompt  *)
(* and start().                                                            *)
WorkspaceChoices(net) ==
    /\ pc = "ws_prompt"
    /\ wsCalls < MaxRenders
    /\ CallGetWorkspaces(api_token, net)
    /\ pc' = IF lastReturn'.raised THEN "failed" ELSE pc
    /\ raisedBy' = IF lastReturn'.raised THEN "list" ELSE raisedBy
    /\ UNCHANGED << api_token, answers, config, remote, asked, echoed, rejected,
                    cancelled, changes, authVars, exitStatus, visited >>

(* the user picks one of the choices shown *)
WorkspaceInput(name) ==
    /\ pc = "ws_prompt"
    /\ wsCalls > 0
    /\ \E i \in 1 .. Len(lastReturn.value) : lastReturn.value[i] = name
    /\ answers' = ("default workspace" :> name) @@ answers
    /\ pc' = "tz_prompt"
    /\ UNCHANGED << api_token, config, remote, asked, calls, echoed, rejected,
                    cancelled, changes, wsVars, authVars, runVars >>

(* the user types a timezone: lines 157-159 take a name of pendulum.timezones *)
(* or the sentinel, the question is asked again for anything else             *)
TimezoneInput(current) ==
    /\ pc = "tz_prompt"
    /\ IF current \in Timezones \/ current = SYSTEM_TIMEZONE
       THEN /\ answers' = ("timezone" :> current) @@ answers
            /\ pc' = "fl_prompt"
            /\ rejected' = rejected
       ELSE /\ rejected["timezone"] < MaxRetries
            /\ rejected' = Bump(rejected, "timezone")
            /\ UNCHANGED << answers, pc >>
    /\ UNCHANGED << api_token, config, remote, asked, calls, echoed, cancelled,
                    changes, wsVars, authVars, runVars >>

\* what Finish records of the by-name lookup
LookupSeen(got) ==
    /\ calls' = IF got.lookup THEN Bump(calls, "lookup") ELSE calls
    /\ sentTokens' = IF got.lookup
                     THEN [sentTokens EXCEPT !["lookup"] = @ \cup { got.token }]
                     ELSE sentTokens

(* a variant that answers a failed lookup with _exit *)
FinishExitOnFailure(ans, net) ==
    LET got == _map_answers(("api_token" :> api_token) @@ ans, remote, net)
    IN  /\ answers' = ans
        /\ LookupSeen(got)
        /\ exitStatus' = IF got.raised THEN << ExitStatusOf(ExitCode) >> ELSE exitStatus
        /\ raisedBy' = raisedBy
        /\ IF got.raised
           THEN /\ pc' = "aborted"
                /\ config' = config
                /\ echoed' = [echoed EXCEPT !["success"] = @ + 1, !["failure"] = @ + 1]
                /\ visited' = visited \o << "NORMALIZING", "ABORTED" >>
           ELSE /\ pc' = "done"
                /\ config' = got.output
                /\ echoed' = Bump(echoed, "success")
                /\ visited' = visited \o << "NORMALIZING", "DONE" >>

(* a variant that does not hand the resolved token to _map_answers *)
FinishNoToken(ans, net) ==
    LET got == _map_answers(("api_token" :> None) @@ ans, remote, net)
    IN  /\ answers' = ans
        /\ echoed' = Bump(echoed, "success")
        /\ LookupSeen(got)
        /\ exitStatus' = exitStatus
        /\ raisedBy' = IF got.raised THEN "lookup" ELSE raisedBy
        /\ IF got.raised
           THEN /\ pc' = "failed"
                /\ config' = config
                /\ visited' = Append(visited, "NORMALIZING")
           ELSE /\ pc' = "done"
                /\ config' = got.output
                /\ visited' = visited \o << "NORMALIZING", "DONE" >>

(* lines 166-173 once the batch is answered with ans: the success notice,  *)
(* then _map_answers(api_token=api_token, **answers)                       *)
Finish(ans, net) ==
    LET got == _map_answers(("api_token" :> api_token) @@ ans, remote, net)
    IN  /\ answers' = ans
        /\ echoed' = Bump(echoed, "success")
        /\ LookupSeen(got)
        /\ exitStatus' = exitStatus
        /\ raisedBy' = IF got.raised THEN "lookup" ELSE raisedBy
        /\ IF got.raised
           THEN /\ pc' = "failed"
                /\ config' = config
                /\ visited' = Append(visited, "NORMALIZING")
           ELSE /\ pc' = "done"
                /\ config' = got.output
                /\ visited' = visited \o << "NORMALIZING", "DONE" >>

(* the user answers the file logging question; with False the path         *)
(* question is ignored and inquirer records its default                    *)
FileLoggingInput(enable, net) ==
    /\ pc = "fl_prompt"
    /\ IF enable
       THEN /\ answers' = ("file_logging" :> TRUE) @@ answers
            /\ pc' = "path_prompt"
            /\ UNCHANGED << config, echoed, calls, runVars >>
       ELSE Finish(("file_logging" :> FALSE) @@ ("file_logging_path" :> DefaultLogPath)
                     @@ answers, net)
    /\ UNCHANGED << api_token, remote, asked, rejected, cancelled, changes,
                    wsVars, authVars >>

(* the user types the path of the log file *)
PathInput(path, net) ==
    /\ pc = "path_prompt"
    /\ Finish(("file_logging_path" :> path) @@ answers, net)
    /\ UNCHANGED << api_token, remote, asked, rejected, cancelled, changes,
                    wsVars, authVars >>

(* the user cancels a question of the batch: inquirer.prompt returns None  *)
(* (line 168)                                                              *)
PreferencesCancel ==
    /\ \/ pc = "ws_prompt" /\ wsCalls > 0
       \/ pc \in { "tz_prompt", "fl_prompt", "path_prompt" }
    /\ cancelled' = "preferences"
    /\ answers' = << >>
    /\ _exit
    /\ UNCHANGED << api_token, config, remote, asked, calls, rejected, changes,
                    wsVars, authVars, raisedBy, sentTokens >>

-----------------------------------------------------------------------------
(* The environment *)

(* workspaces of the account are renamed, deleted or created meanwhile *)
RemoteChange(state) ==
    /\ pc \notin { "done", "aborted", "failed" }
    /\ changes < MaxRemoteChanges
    /\ state # remote
    /\ remote' = state
    /\ changes' = changes + 1
    /\ UNCHANGED << pc, api_token, answers, config, asked, calls, echoed,
                    rejected, cancelled, wsVars, authVars, runVars >>

(* a caller holding the instance calls _get_workspaces itself *)
GetWorkspaces(token, net) ==
    /\ pc = "start"
    /\ wsCalls < MaxDirectCalls
    /\ CallGetWorkspaces(token, net)
    /\ UNCHANGED << pc, api_token, answers, config, remote, asked, echoed,
                    rejected, cancelled, changes, authVars, exitStatus, visited,
                    raisedBy >>

-----------------------------------------------------------------------------
(* One run of start() on a fresh instance *)

Next ==
    \/ Start
    \/ \E answer \in { API_TOKEN_OPTION, CREDENTIALS_OPTION, None } : AuthChoice(answer)
    \/ \E current \in TokenInputs : TokenInput(current)
    \/ TokenCancel
    \/ \E username \in Usernames, password \in Passwords, net \in BOOLEAN :
           CredInput(username, password, net)
    \/ CredCancel
    \/ \E net \in BOOLEAN : WorkspaceChoices(net)
    \/ \E name \in { KEEP_TOGGLS_DEFAULT_WORKSPACE, "Acme", "Home", "Corp", "Lab" } :
           WorkspaceInput(name)
    \/ \E current \in TimezoneInputs : TimezoneInput(current)
    \/ \E enable \in BOOLEAN, net \in BOOLEAN : FileLoggingInput(enable, net)
    \/ \E path \in PathInputs, net \in BOOLEAN : PathInput(path, net)
    \/ PreferencesCancel
    \/ \E state \in RemoteStates : RemoteChange(state)

Spec == Init /\ [][Next]_vars

(* Calls of _get_workspaces on one instance, with any tokens *)

NextWorkspaces ==
    \/ \E token \in TokenInputs, net \in BOOLEAN : GetWorkspaces(token, net)
    \/ \E state \in RemoteStates : RemoteChange(state)

SpecWorkspaces == Init /\ [][NextWorkspaces]_vars

-----------------------------------------------------------------------------
(* Properties *)

Names(all) == [ i \in 1 .. Len(all) |-> all[i].name ]

\* the decimal form of the identifiers the remote account uses
DecimalOf == (7 :> "7") @@ (12 :> "12") @@ (40 :> "40") @@ (105 :> "105")

\* the home-expanded form of each path the user may type, HOME being /h/ and
\* the home of user u being /o
Expanded ==
    (<< "~", "/", "t" >> :> << "/", "h", "/", "t" >>)
      @@ (<< "~" >> :> << "/", "h" >>)
      @@ (<< "~", "u", "/", "t" >> :> << "/", "o", "/", "t" >>)
      @@ (<< "~", "x", "/", "t" >> :> << "~", "x", "/", "t" >>)
      @@ (<< "/", "v", "/", "t" >> :> << "/", "v", "/", "t" >>)
      @@ (<< "t" >> :> << "t" >>)

(* C1, as stated: in every run that returns a config, on either auth path, *)
(* the returned api_token is a non-empty string that are_credentials_valid *)
(* accepted during the run.                                                *)
C1_TokenAcceptedByValidityCheck ==
    pc = "done" =>
        /\ config["api_token"] # ""
        /\ config["api_token"] \in accepted

(* C1, amended: in every run that returns a config the returned api_token  *)
(* is a non-empty string; on the API token path it is the answer that      *)
(* are_credentials_valid accepted during the run; on the Credentials path  *)
(* it is the token convert_credentials_to_api_token returned for the last  *)
(* submitted pair, and are_credentials_valid is not called at all.         *)
C1_TokenValidatedOrExchanged ==
    pc = "done" =>
        /\ config["api_token"] \notin { "", None }
        /\ type_auth = API_TOKEN_OPTION => config["api_token"] \in accepted
        /\ type_auth = CREDENTIALS_OPTION =>
               /\ calls["valid"] = 0
               /\ config["api_token"]
                    = AccountToken(credentials.username, credentials.password)

C1_Witness ==
    /\ pc = "done"
    /\ type_auth = API_TOKEN_OPTION
    /\ rejected["token"] > 0

(* C2: a run that returns a config and whose timezone answer is an         *)
(* accepted zone name returns that name under the key timezone.            *)
C2_ZoneNamePassedThrough ==
    (pc = "done" /\ answers["timezone"] \in Timezones) =>
        /\ "timezone" \in DOMAIN config
        /\ config["timezone"] = answers["timezone"]

(* C3: a run that returns a config and whose timezone answer is the        *)
(* sentinel returns timezone = local; a timezone in a returned config is   *)
(* local or an accepted zone name, never the sentinel.                     *)
C3_SentinelBecomesLocal ==
    pc = "done" =>
        /\ answers["timezone"] = SYSTEM_TIMEZONE =>
               "timezone" \in DOMAIN config /\ config["timezone"] = "local"
        /\ "timezone" \in DOMAIN config =>
               /\ config["timezone"] \in { "local" } \cup Timezones
               /\ config["timezone"] # SYSTEM_TIMEZONE

C3_Witness ==
    /\ pc = "done"
    /\ answers["timezone"] = SYSTEM_TIMEZONE
    /\ config["timezone"] = "local"

(* C4: a returned config has file_logging_path exactly when file_logging   *)
(* is true: absent with file_logging false although the raw answers hold a *)
(* path, present with the home-expanded form of the typed path otherwise.  *)
C4_PathIffFileLogging ==
    pc = "done" =>
        /\ config["file_logging"] = answers["file_logging"]
        /\ "file_logging_path" \in DOMAIN config <=> config["file_logging"]
        /\ ~answers["file_logging"] =>
               /\ "file_logging_path" \in DOMAIN answers
               /\ "file_logging_path" \notin DOMAIN config
        /\ answers["file_logging"] =>
               config["file_logging_path"] = Expanded[answers["file_logging_path"]]

C4_Witness ==
    /\ pc = "done"
    /\ config["file_logging"]
    /\ answers["file_logging_path"] = << "~", "/", "t" >>
    /\ config["file_logging_path"] = << "/", "h", "/", "t" >>

(* C5: a returned config has no default_wid when the workspace answer is   *)
(* the sentinel; for a workspace name it has default_wid, the decimal      *)
(* string of the identifier of the account's workspace of that name.       *)
C5_DefaultWidFromLookup ==
    pc = "done" =>
        IF answers["default workspace"] = KEEP_TOGGLS_DEFAULT_WORKSPACE
        THEN "default_wid" \notin DOMAIN config
        ELSE /\ "default_wid" \in DOMAIN config
             /\ \E i \in 1 .. Len(remote[api_token]) :
                    /\ remote[api_token][i].name = answers["default workspace"]
                    /\ config["default_wid"] = DecimalOf[remote[api_token][i].id]

C5_Witness ==
    /\ pc = "done"
    /\ answers["default workspace"] = "Home"
    /\ config["default_wid"] = "12"

(* C6: over any calls of _get_workspaces on one instance, with the same or *)
(* different tokens, the remote listing is done at most once, by the first *)
(* call; a call that returns hands out the memoized list.                  *)
C6_ListedAtMostOnce ==
    /\ calls["list"] <= 1
    /\ wsCalls >= 1 => calls["list"] = 1
    /\ (wsCalls >= 1 /\ ~lastReturn.raised) => workspaces = << lastReturn.value >>

C6_Witness ==
    /\ wsCalls >= 3
    /\ Cardinality(wsTokens) >= 2
    /\ calls["list"] = 1
    /\ ~lastReturn.raised

(* C7: every call of _get_workspaces that returns a value, also one after  *)
(* a call that failed in the remote listing, returns the sentinel followed *)
(* by the names of all workspaces the remote listing returned, in order.   *)
C7_SentinelThenAllNames ==
    (wsCalls >= 1 /\ ~lastReturn.raised) =>
        /\ listed # << >>
        /\ lastReturn.value = << KEEP_TOGGLS_DEFAULT_WORKSPACE >> \o Names(listed[1])

(* C8: after the user cancels the auth-method question the wizard has      *)
(* aborted, with no prompt but that one and no remote call.                *)
C8_CancelFirstPromptStopsAll ==
    cancelled = "auth" =>
        /\ pc = "aborted"
        /\ asked = [auth |-> 1, token |-> 0, credentials |-> 0, preferences |-> 0]
        /\ calls = [valid |-> 0, exchange |-> 0, list |-> 0, lookup |-> 0]

C8_Witness ==
    /\ cancelled = "auth"
    /\ pc = "aborted"

(* C9: on the credentials path the retry notice is printed once per        *)
(* submission rejected with an authentication error; when the k+1st        *)
(* submission is accepted after k rejected ones, the pair was asked k+1    *)
(* times, exchanged k+1 times, and the token is the one exchanged.         *)
C9_OneNoticePerRejection ==
    type_auth = CREDENTIALS_OPTION =>
        /\ echoed["retry"] = rejected["credentials"]
        /\ pc = "cred_prompt" => asked["credentials"] = rejected["credentials"] + 1
        /\ api_token # None =>
               /\ asked["credentials"] = rejected["credentials"] + 1
               /\ calls["exchange"] = rejected["credentials"] + 1
               /\ api_token = AccountToken(credentials.username, credentials.password)

C9_Witness ==
    /\ type_auth = CREDENTIALS_OPTION
    /\ api_token # None
    /\ rejected["credentials"] = 3
    /\ echoed["retry"] = 3
    /\ asked["credentials"] = 4

(* C10: once the user has cancelled a prompt the wizard has aborted: the   *)
(* fatal exit was made once, the cancelled prompt was not asked again and  *)
(* no later prompt was asked.                                              *)
C10_CancelAlwaysAborts ==
    cancelled # "" =>
        /\ pc = "aborted"
        /\ echoed["failure"] = 1
        /\ cancelled = "auth" =>
               asked = [auth |-> 1, token |-> 0, credentials |-> 0, preferences |-> 0]
        /\ cancelled = "token" =>
               asked = [auth |-> 1, token |-> 1, credentials |-> 0, preferences |-> 0]
        /\ cancelled = "credentials" =>
               asked = [auth |-> 1, token |-> 0,
                        credentials |-> rejected["credentials"] + 1, preferences |-> 0]
        /\ cancelled = "preferences" =>
               /\ asked["auth"] = 1
               /\ asked["preferences"] = 1
               /\ asked["token"] + asked["credentials"] = 1 + rejected["credentials"]

C10_Witness ==
    /\ cancelled = "credentials"
    /\ rejected["credentials"] >= 1
    /\ pc = "aborted"

\* the states of the wizard, in the order of a run that returns a config
Order == << "START", "AUTHENTICATING", "COLLECTING_PREFERENCES", "NORMALIZING", "DONE" >>

IsPrefix(s, t) == Len(s) <= Len(t) /\ SubSeq(t, 1, Len(s)) = s

\* the state the wizard is in
Current == visited[Len(visited)]

\* the account of the resolved token has no workspace of the chosen name
ChosenWorkspaceGone ==
    \A i \in 1 .. Len(remote[api_token]) :
        remote[api_token][i].name # answers["default workspace"]

(* C11: when the wizard has reached ABORTED the failure notice was printed *)
(* once, the process ended with a non-zero status and no config is         *)
(* returned; after _exit no step of start() runs: neither the preferences  *)
(* prompts (for an abort during authentication), nor the success notice,   *)
(* nor _map_answers and its by-name lookup.                                *)
C11_AbortedExitsOnce ==
    /\ echoed["failure"] > 0 <=> pc = "aborted"
    /\ exitStatus # << >> <=> pc = "aborted"
    /\ pc = "aborted" =>
           /\ echoed["failure"] = 1
           /\ exitStatus[1] \in 1 .. 255
           /\ Current = "ABORTED"
           /\ config = << >>
           /\ echoed["success"] = 0
           /\ calls["lookup"] = 0
           /\ cancelled \in { "auth", "token", "credentials" } =>
                  asked["preferences"] = 0 /\ calls["list"] = 0

C11_Witness ==
    /\ pc = "aborted"
    /\ cancelled = "preferences"
    /\ exitStatus = << 255 >>
    /\ echoed["failure"] = 1

(* C12: when the workspace answer is a name that the by-name lookup cannot *)
(* resolve at normalisation, the run ends in a failure and returns no      *)
(* config; a returned config whose workspace answer is a name always has   *)
(* default_wid.                                                            *)
C12_UnresolvedWorkspaceIsFatal ==
    /\ ( /\ echoed["success"] > 0
         /\ answers["default workspace"] # KEEP_TOGGLS_DEFAULT_WORKSPACE
         /\ ChosenWorkspaceGone ) =>
           /\ pc = "failed"
           /\ raisedBy = "lookup"
           /\ config = << >>
    /\ ( /\ pc = "done"
         /\ answers["default workspace"] # KEEP_TOGGLS_DEFAULT_WORKSPACE ) =>
           "default_wid" \in DOMAIN config

C12_Witness ==
    /\ pc = "failed"
    /\ raisedBy = "lookup"
    /\ answers["default workspace"] = "Home"
    /\ ChosenWorkspaceGone

(* C13: a run on the token path in which the user enters a valid token t,  *)
(* keeps the default workspace, leaves the timezone sentinel and answers   *)
(* file_logging = false returns exactly {api_token: t, file_logging:       *)
(* false, timezone: local}.                                                *)
C13_EndToEndTokenRun ==
    ( /\ echoed["success"] > 0
      /\ type_auth = API_TOKEN_OPTION
      /\ answers["default workspace"] = KEEP_TOGGLS_DEFAULT_WORKSPACE
      /\ answers["timezone"] = SYSTEM_TIMEZONE
      /\ ~answers["file_logging"] ) =>
        /\ pc = "done"
        /\ \E t \in ValidTokens :
               /\ accepted = { t }
               /\ DOMAIN config = { "api_token", "file_logging", "timezone" }
               /\ config["api_token"] = t
               /\ config["file_logging"] = FALSE
               /\ config["timezone"] = "local"

C13_Witness ==
    /\ pc = "done"
    /\ type_auth = API_TOKEN_OPTION
    /\ accepted = { "abc123" }
    /\ DOMAIN config = { "api_token", "file_logging", "timezone" }
    /\ config["api_token"] = "abc123"

(* C14: the states a run has entered are START, AUTHENTICATING,            *)
(* COLLECTING_PREFERENCES, NORMALIZING, DONE in that order, none skipped   *)
(* and none entered twice, or such a run up to AUTHENTICATING or           *)
(* COLLECTING_PREFERENCES followed by ABORTED; nothing follows DONE or     *)
(* ABORTED.                                                                *)
C14_StatesInOrder ==
    /\ \/ IsPrefix(visited, Order)
       \/ visited = << "START", "AUTHENTICATING", "ABORTED" >>
       \/ visited = << "START", "AUTHENTICATING", "COLLECTING_PREFERENCES", "ABORTED" >>
    /\ pc = "start" <=> Current = "START"
    /\ pc \in { "auth_choice", "token_prompt", "cred_prompt" } => Current = "AUTHENTICATING"
    /\ pc \in { "ws_prompt", "tz_prompt", "fl_prompt", "path_prompt" } =>
           Current = "COLLECTING_PREFERENCES"
    /\ pc = "done" <=> Current = "DONE"
    /\ pc = "aborted" <=> Current = "ABORTED"
    /\ pc = "failed" =>
           Current \in { "AUTHENTICATING", "COLLECTING_PREFERENCES", "NORMALIZING" }

C14_Witness ==
    /\ visited = Order
    /\ pc = "done"

(* C15: a remote call that fails for another reason than invalid           *)
(* credentials (the exchange, the listing, the by-name lookup) ends        *)
(* start() with the exception: the call is not made again, no prompt is    *)
(* asked again, no retry notice is printed for it, no config is returned.  *)
C15_RemoteFailureIsFatal ==
    /\ pc = "failed" <=> raisedBy # ""
    /\ raisedBy # "" =>
           /\ config = << >>
           /\ echoed["failure"] = 0
           /\ echoed["retry"] = rejected["credentials"]
    /\ raisedBy = "exchange" =>
           /\ calls["exchange"] = rejected["credentials"] + 1
           /\ asked["credentials"] = rejected["credentials"] + 1
           /\ asked["preferences"] = 0
           /\ api_token = None
    /\ raisedBy = "list" =>
           /\ calls["list"] = 1
           /\ wsCalls = 1
           /\ asked["preferences"] = 1
           /\ echoed["success"] = 0
    /\ raisedBy = "lookup" =>
           /\ calls["lookup"] = 1
           /\ asked["preferences"] = 1

C15_Witness ==
    /\ raisedBy = "exchange"
    /\ pc = "failed"
    /\ rejected["credentials"] >= 1

(* C16, as stated: after any number of rejected submissions the pair is    *)
(* asked again, and the credentials loop is left only with the exchanged   *)
(* token, the wizard collecting preferences, or with the user's            *)
(* cancellation, the wizard aborted.                                       *)
C16_LoopLeftOnlyByTokenOrCancel ==
    type_auth = CREDENTIALS_OPTION =>
        /\ pc = "cred_prompt" =>
               api_token = None /\ asked["credentials"] = rejected["credentials"] + 1
        /\ pc # "cred_prompt" =>
               \/ api_token # None /\ Len(visited) >= 3
                    /\ visited[3] = "COLLECTING_PREFERENCES"
               \/ cancelled = "credentials" /\ Current = "ABORTED"

(* C16, amended: after any number of rejected submissions the pair is      *)
(* asked again, and the credentials loop is left only with the exchanged   *)
(* token, the wizard collecting preferences, with the user's cancellation, *)
(* the wizard aborted, or with an exception of the exchange that is not an *)
(* authentication error, which ends start().                               *)
C16_LoopLeftByTokenCancelOrError ==
    type_auth = CREDENTIALS_OPTION =>
        /\ pc = "cred_prompt" =>
               api_token = None /\ asked["credentials"] = rejected["credentials"] + 1
        /\ pc # "cred_prompt" =>
               \/ api_token # None /\ Len(visited) >= 3
                    /\ visited[3] = "COLLECTING_PREFERENCES"
               \/ cancelled = "credentials" /\ Current = "ABORTED"
               \/ raisedBy = "exchange" /\ pc = "failed" /\ api_token = None

C16_Witness ==
    /\ type_auth = CREDENTIALS_OPTION
    /\ pc = "cred_prompt"
    /\ rejected["credentials"] = 3
    /\ asked["credentials"] = 4

(* C17: the token sent with the remote listing, the token sent with the    *)
(* by-name lookup and the api_token of the returned config are the one     *)
(* value _get_api_token returned, which was resolved once; no username or  *)
(* password is in the returned config.                                     *)
C17_OneTokenEverywhere ==
    /\ asked["auth"] <= 1
    /\ api_token = None => sentTokens = [list |-> { }, lookup |-> { }]
    /\ sentTokens["list"] \subseteq { api_token }
    /\ sentTokens["lookup"] \subseteq { api_token }
    /\ api_token # None =>
           /\ type_auth = API_TOKEN_OPTION =>
                  accepted = { api_token } /\ calls["valid"] = rejected["token"] + 1
           /\ type_auth = CREDENTIALS_OPTION =>
                  /\ api_token = AccountToken(credentials.username, credentials.password)
                  /\ calls["exchange"] = rejected["credentials"] + 1
    /\ pc = "done" =>
           /\ config["api_token"] = api_token
           /\ DOMAIN config \subseteq { "api_token", "file_logging", "file_logging_path",
                                        "timezone", "default_wid" }
           /\ \A k \in DOMAIN config \cap { "api_token", "timezone", "default_wid" } :
                  config[k] \notin Usernames \cup Passwords

C17_Witness ==
    /\ pc = "done"
    /\ type_auth = CREDENTIALS_OPTION
    /\ sentTokens = [list |-> { api_token }, lookup |-> { api_token }]
    /\ config["api_token"] = "tok2"

(* C18: no remote listing is done in START or AUTHENTICATING; it is done   *)
(* only with a resolved token and only by the workspace question of the    *)
(* preferences batch asking for its choices; a run that ends during        *)
(* authentication has listed nothing.                                      *)
C18_ListingIsLazy ==
    /\ Current \in { "START", "AUTHENTICATING" } => calls["list"] = 0 /\ wsCalls = 0
    /\ wsCalls = 0 => calls["list"] = 0
    /\ calls["list"] > 0 =>
           /\ api_token # None
           /\ asked["preferences"] = 1
           /\ sentTokens["list"] = { api_token }
    /\ cancelled \in { "auth", "token", "credentials" } => calls["list"] = 0

C18_Witness ==
    /\ calls["list"] = 1
    /\ pc = "ws_prompt"
    /\ type_auth = CREDENTIALS_OPTION
    /\ rejected["credentials"] > 0

(* C19: a run that chose the API token never asks for the username and     *)
(* password, never calls convert_credentials_to_api_token and never prints *)
(* the retry notice; a run that chose Credentials never asks for the API   *)
(* token and never calls are_credentials_valid; the auth-method question   *)
(* is asked once.                                                          *)
C19_AuthBranchesDisjoint ==
    /\ asked["auth"] <= 1
    /\ type_auth = None => asked["token"] = 0 /\ asked["credentials"] = 0
    /\ type_auth = API_TOKEN_OPTION =>
           /\ asked["token"] = 1
           /\ asked["credentials"] = 0
           /\ credentials = << >>
           /\ calls["exchange"] = 0
           /\ echoed["retry"] = 0
    /\ type_auth = CREDENTIALS_OPTION =>
           /\ asked["token"] = 0
           /\ calls["valid"] = 0
           /\ accepted = { }

C19_Witness ==
    /\ pc = "done"
    /\ type_auth = CREDENTIALS_OPTION
    /\ rejected["credentials"] > 0
    /\ calls["exchange"] > 1

====
